---- MODULE Spec2Model ----
(***************************************************************************)
(* Order lifecycle of the campus marketplace API.                          *)
(*                                                                         *)
(*   OrderStateMachine.js : the transition table and the pure checks       *)
(*   OrderService         : createSellOrder, updateOrderStatus, cancelOrder*)
(*   OrderRepository      : the queries and writes the service issues      *)
(*   ListingService       : update and delete of a listing by its owner    *)
(*                                                                         *)
(* Every `await` of a handler that reads or writes mutable rows is a step  *)
(* of its own, so requests interleave as the event loop lets them.  Reads  *)
(* of rows that nothing in the program ever changes (the student of a user,*)
(* the owner of a listing) are taken in the step that follows them.        *)
(***************************************************************************)
EXTENDS Integers, Sequences, FiniteSets, TLC

(***************************************************************************)
(* Bounds of the model                                                     *)
(***************************************************************************)
\* at most this many orders are ever created
MaxOrders == 2

\* the request slots: two requests are in flight at a time
Procs == {1, 2}

(***************************************************************************)
(* OrderStateMachine.js                                                    *)
(***************************************************************************)
PENDING == "PENDING"
NEGOTIATING == "NEGOTIATING"
APPROVED == "APPROVED"
REJECTED == "REJECTED"
PAYMENT_PENDING == "PAYMENT_PENDING"
PAID == "PAID"
COMPLETED == "COMPLETED"
CANCELLED == "CANCELLED"

OrderStatus ==
    {PENDING, NEGOTIATING, APPROVED, REJECTED, PAYMENT_PENDING, PAID, COMPLETED, CANCELLED}

validTransitions_NoPayment(currentStatus) ==
    CASE currentStatus = PENDING -> {NEGOTIATING, CANCELLED}
      [] currentStatus = NEGOTIATING -> {APPROVED, REJECTED, CANCELLED}
      [] currentStatus = APPROVED -> {CANCELLED}
      [] currentStatus = PAYMENT_PENDING -> {PAID, CANCELLED}
      [] currentStatus = PAID -> {COMPLETED}
      [] OTHER -> {}

\* validTransitions[currentStatus]; a key the table does not hold yields undefined,
\* which both readers of the table turn into "no transitions"
validTransitions(currentStatus) ==
    CASE currentStatus = PENDING -> {NEGOTIATING, CANCELLED}
      [] currentStatus = NEGOTIATING -> {APPROVED, REJECTED, CANCELLED}
      [] currentStatus = APPROVED -> {PAYMENT_PENDING, CANCELLED}
      [] currentStatus = PAYMENT_PENDING -> {PAID, CANCELLED}
      [] currentStatus = PAID -> {COMPLETED}
      [] currentStatus = COMPLETED -> {}
      [] currentStatus = REJECTED -> {}
      [] currentStatus = CANCELLED -> {}
      [] OTHER -> {}

cancellableStatuses == {PENDING, NEGOTIATING, APPROVED, PAYMENT_PENDING}

nonCancellableStatuses == {PAID, COMPLETED, REJECTED, CANCELLED}

\* validTransitions is an object literal: a key that names a member every object
\* inherits finds that member instead of undefined
InheritedKeys == {"constructor"}

\* what such a key finds: a function, not an array of statuses
NotAnArray == "[Function: Object]"

isValidTransition_SameStatus(currentStatus, newStatus) ==
    newStatus \in validTransitions(currentStatus) \/ newStatus = currentStatus

\* isValidTransition returns true
isValidTransition(currentStatus, newStatus) ==
    newStatus \in validTransitions(currentStatus)

\* isValidTransition throws a TypeError: what the key found is truthy and has no
\* includes method
isValidTransitionThrows(currentStatus, newStatus) == currentStatus \in InheritedKeys

\* validTransitions[currentStatus] || []
getAllowedTransitions(currentStatus) ==
    IF currentStatus \in InheritedKeys THEN {NotAnArray} ELSE validTransitions(currentStatus)

canCancel_WithPaid(currentStatus) == currentStatus \in cancellableStatuses \cup {PAID}

canCancel(currentStatus) == currentStatus \in cancellableStatuses

cannotCancel_TerminalOnly(currentStatus) ==
    currentStatus \in {COMPLETED, REJECTED, CANCELLED}

cannotCancel(currentStatus) == currentStatus \in nonCancellableStatuses

\* the statuses in the order in which OrderStatus and every array of the table list them
StatusOrder ==
    <<PENDING, NEGOTIATING, APPROVED, REJECTED, PAYMENT_PENDING, PAID, COMPLETED, CANCELLED>>

InAllowed(allowed, s) == s \in allowed

\* allowed.length > 0 ? allowed.join(", ") : "none", as the words of the text
joinAllowed(allowed) ==
    IF allowed = {} THEN <<"none">>
    ELSE SelectSeq(StatusOrder, LAMBDA s : InAllowed(allowed, s))

\* the message of the Error: its words
transitionMessage(currentStatus, newStatus, allowed) ==
    <<"Invalid status transition from", currentStatus, "to", newStatus,
      "Allowed transitions:">> \o joinAllowed(allowed)

validateStatusTransition_NoneAllowed(currentStatus, newStatus) ==
    IF isValidTransitionThrows(currentStatus, newStatus)
    THEN [kind |-> "TypeError", current |-> currentStatus, requested |-> newStatus,
          allowed |-> {}, message |-> <<"allowedTransitions.includes is not a function">>]
    ELSE IF ~isValidTransition(currentStatus, newStatus)
    THEN [kind |-> "InvalidTransition", current |-> currentStatus,
          requested |-> newStatus, allowed |-> getAllowedTransitions(currentStatus),
          message |-> transitionMessage(currentStatus, newStatus, {})]
    ELSE [kind |-> "ok", current |-> currentStatus,
          requested |-> newStatus, allowed |-> {}, message |-> <<>>]

\* validateStatusTransition: "ok", or the error it throws: the TypeError of
\* isValidTransition, or the Error whose message names the two statuses and the
\* allowed ones
validateStatusTransition(currentStatus, newStatus) ==
    IF isValidTransitionThrows(currentStatus, newStatus)
    THEN [kind |-> "TypeError", current |-> currentStatus, requested |-> newStatus,
          allowed |-> {}, message |-> <<"allowedTransitions.includes is not a function">>]
    ELSE IF ~isValidTransition(currentStatus, newStatus)
    THEN [kind |-> "InvalidTransition", current |-> currentStatus,
          requested |-> newStatus, allowed |-> getAllowedTransitions(currentStatus),
          message |-> transitionMessage(currentStatus, newStatus,
                                        getAllowedTransitions(currentStatus))]
    ELSE [kind |-> "ok", current |-> currentStatus,
          requested |-> newStatus, allowed |-> {}, message |-> <<>>]

\* validateCancellation: "ok", or the error it throws
validateCancellation(currentStatus) ==
    IF cannotCancel(currentStatus) THEN "CancellationNotAllowed" ELSE "ok"


(***************************************************************************)
(* The store: students, listings, orders                                   *)
(***************************************************************************)
\* user accounts and the student profile of each; no handler writes a student row
Users == {"u1", "u2", "u3", "u4"}

Students == {"s1", "s2", "s3", "s5"}

\* u1 owns listing L1, u2 owns L2, u3 is deactivated, u4 has no student profile;
\* u5 is one more active student, who owns nothing
StudentTable ==
    {[userId |-> "u1", id |-> "s1", isActive |-> TRUE],
     [userId |-> "u2", id |-> "s2", isActive |-> TRUE],
     [userId |-> "u3", id |-> "s3", isActive |-> FALSE],
     [userId |-> "u5", id |-> "s5", isActive |-> TRUE]}

\* findStudentByUserId: the rows found (none, or the one student of the user)
findStudentByUserId(userId) == {s \in StudentTable : s.userId = userId}

StudentOf(userId) == CHOOSE s \in findStudentByUserId(userId) : TRUE

ListingIds == {"L1", "L2"}

\* a listing id no listing has
MissingListing == "L0"

BasePrice == 100

NewPrice == 120

VARIABLES
    orders,     \* the order table: a sequence, an order's id is its index
    listings,   \* the listing table: id -> row
    req,        \* per request in flight: the handler it runs, where it is, its locals
    ret,        \* the response being sent: the call and what it returned or threw
    sm          \* the inputs and the result of a call of the pure state-machine functions

vars == <<orders, listings, req, ret, sm>>

OrderIds == 1..MaxOrders

\* findOrderById
orderExists(orderId) == orderId \in 1..Len(orders)

findOrderById(orderId) == orders[orderId]

\* findListingById
listingExists(listingId) == listingId \in DOMAIN listings

findListingById(listingId) == listings[listingId]

findActiveOrders_AnyStatus(buyerId, listingId) ==
    {i \in 1..Len(orders) :
        /\ orders[i].buyerId = buyerId
        /\ orders[i].listingId = listingId}

\* findActiveOrdersByBuyerAndListing: the ids of the rows the query returns
findActiveOrdersByBuyerAndListing(buyerId, listingId) ==
    {i \in 1..Len(orders) :
        /\ orders[i].buyerId = buyerId
        /\ orders[i].listingId = listingId
        /\ orders[i].status \in {PENDING, NEGOTIATING, APPROVED, PAYMENT_PENDING}}

\* ListingRepository.hasActiveOrders ("ACTIVE" is a status no order of this workflow takes)
hasActiveOrders(listingId) ==
    Cardinality({i \in 1..Len(orders) :
        /\ orders[i].listingId = listingId
        /\ orders[i].status \in
             {PENDING, NEGOTIATING, APPROVED, PAYMENT_PENDING, PAID, "ACTIVE"}}) > 0

\* ListingRepository.findByIdAndOwner
findByIdAndOwner(listingId, ownerId) ==
    {l \in DOMAIN listings : l = listingId /\ listings[l].ownerId = ownerId}

createOrder_CurrentPrice(data) ==
    Append(orders, [listingId |-> data.listingId, buyerId |-> data.buyerId,
                    sellerId |-> data.sellerId, type |-> data.type,
                    status |-> data.status,
                    totalPrice |-> listings[data.listingId].price])

\* OrderRepository.createOrder
createOrder(data) ==
    Append(orders, [listingId |-> data.listingId, buyerId |-> data.buyerId,
                    sellerId |-> data.sellerId, type |-> data.type,
                    status |-> data.status, totalPrice |-> data.totalPrice])

repoUpdateOrderStatus_Reprice(orderId, status) ==
    [orders EXCEPT ![orderId].status = status,
                   ![orderId].totalPrice = listings[orders[orderId].listingId].price]

\* OrderRepository.updateOrderStatus
repoUpdateOrderStatus(orderId, status) == [orders EXCEPT ![orderId].status = status]

updateListingAvailability_EveryListing(listingId, isAvailable) ==
    [l \in DOMAIN listings |-> [listings[l] EXCEPT !.isAvailable = isAvailable]]

updateListingAvailability_Ignored(listingId, isAvailable) == listings

\* OrderRepository.updateListingAvailability
updateListingAvailability(listingId, isAvailable) ==
    [listings EXCEPT ![listingId].isAvailable = isAvailable]

\* ListingRepository.update: only the fields the request carries are written
listingRepoUpdate(id, data) ==
    [listings EXCEPT ![id] =
        [ownerId |-> @.ownerId,
         price |-> IF "price" \in data.fields THEN data.price ELSE @.price,
         listingType |-> IF "listingType" \in data.fields THEN data.listingType ELSE @.listingType,
         isAvailable |-> IF "isAvailable" \in data.fields THEN data.isAvailable ELSE @.isAvailable]]

\* ListingRepository.softDelete
softDelete(id) == [listings EXCEPT ![id].isAvailable = FALSE]

\* the bodies of the update requests the model sends
UpdateData ==
    {[fields |-> {"isAvailable"}, price |-> BasePrice, listingType |-> "SELL", isAvailable |-> TRUE]}

PriceData ==
    {[fields |-> {"price"}, price |-> NewPrice, listingType |-> "SELL", isAvailable |-> TRUE],
     [fields |-> {"price"}, price |-> BasePrice, listingType |-> "SELL", isAvailable |-> TRUE]}

\* the listing and the acting student of the listing requests the model sends:
\* L1, by its owner and by another student
ListingRequests == {[listingId |-> "L1", ownerId |-> "s1"], [listingId |-> "L1", ownerId |-> "s2"]}

NoData == [fields |-> {}, price |-> BasePrice, listingType |-> "SELL", isAvailable |-> TRUE]

(***************************************************************************)
(* Requests.  A handler's locals live in req[p] from its first await to    *)
(* its return; its response is in ret until it has been sent.  Request     *)
(* slots are interchangeable, so a new request takes the first free one.   *)
(***************************************************************************)
Idle ==
    [op |-> "none", pc |-> "idle", orderId |-> 0, newStatus |-> "none",
     listingId |-> "none", buyerId |-> "none", sellerId |-> "none", price |-> 0,
     data |-> NoData]

\* a thrown error carries its kind; a result carries the order or listing returned
NoRet ==
    [op |-> "none", result |-> "none", orderId |-> 0, newStatus |-> "none",
     listingId |-> "none"]

Quiet == ret = NoRet

Free(p) ==
    /\ Quiet
    /\ req[p].pc = "idle"
    /\ \A q \in Procs : q < p => req[q].pc # "idle"

At(p, op, pc) == Quiet /\ req[p].op = op /\ req[p].pc = pc

InFlightCreates == Cardinality({p \in Procs : req[p].op = "createSellOrder"})

SMIdle == [current |-> PENDING, next |-> PENDING, fn |-> "none", bool |-> FALSE,
           set |-> {}, kind |-> "none", msg |-> <<>>]

\* the store when the server starts: two listings, no order, no request
StoreInit ==
    /\ orders = <<>>
    /\ listings =
         [l \in ListingIds |->
            IF l = "L1"
            THEN [ownerId |-> "s1", price |-> BasePrice, listingType |-> "SELL", isAvailable |-> TRUE]
            ELSE [ownerId |-> "s2", price |-> BasePrice, listingType |-> "RENT", isAvailable |-> TRUE]]
    /\ req = [p \in Procs |-> Idle]
    /\ ret = NoRet

Init == StoreInit /\ sm = SMIdle

(***************************************************************************)
(* OrderService.createSellOrder                                            *)
(***************************************************************************)
createSellOrderCheck_SelfTradeFirst(listingId, buyerUserId) ==
    IF findStudentByUserId(buyerUserId) = {} THEN "NotAParticipant"
    ELSE IF ~StudentOf(buyerUserId).isActive THEN "InactiveAccount"
    ELSE IF ~listingExists(listingId) THEN "NotFound"
    ELSE IF findListingById(listingId).ownerId = StudentOf(buyerUserId).id THEN "SelfTrade"
    ELSE IF ~findListingById(listingId).isAvailable THEN "Unavailable"
    ELSE IF findListingById(listingId).listingType \notin {"SELL", "BOTH"} THEN "WrongListingType"
    ELSE "ok"

createSellOrderCheck_OwnerByUser(listingId, buyerUserId) ==
    IF findStudentByUserId(buyerUserId) = {} THEN "NotAParticipant"
    ELSE IF ~StudentOf(buyerUserId).isActive THEN "InactiveAccount"
    ELSE IF ~listingExists(listingId) THEN "NotFound"
    ELSE IF ~findListingById(listingId).isAvailable THEN "Unavailable"
    ELSE IF findListingById(listingId).listingType \notin {"SELL", "BOTH"} THEN "WrongListingType"
    ELSE IF findListingById(listingId).ownerId = buyerUserId THEN "SelfTrade"
    ELSE "ok"

createSellOrderCheck_TypeBeforeAvailable(listingId, buyerUserId) ==
    IF findStudentByUserId(buyerUserId) = {} THEN "NotAParticipant"
    ELSE IF ~StudentOf(buyerUserId).isActive THEN "InactiveAccount"
    ELSE IF ~listingExists(listingId) THEN "NotFound"
    ELSE IF findListingById(listingId).listingType \notin {"SELL", "BOTH"} THEN "WrongListingType"
    ELSE IF ~findListingById(listingId).isAvailable THEN "Unavailable"
    ELSE IF findListingById(listingId).ownerId = StudentOf(buyerUserId).id THEN "SelfTrade"
    ELSE "ok"

createSellOrderCheck_NoSelfTrade(listingId, buyerUserId) ==
    IF findStudentByUserId(buyerUserId) = {} THEN "NotAParticipant"
    ELSE IF ~StudentOf(buyerUserId).isActive THEN "InactiveAccount"
    ELSE IF ~listingExists(listingId) THEN "NotFound"
    ELSE IF ~findListingById(listingId).isAvailable THEN "Unavailable"
    ELSE IF findListingById(listingId).listingType \notin {"SELL", "BOTH"} THEN "WrongListingType"
    ELSE "ok"

\* the checks up to and including the read of the listing: the error thrown, or "ok"
createSellOrderCheck(listingId, buyerUserId) ==
    IF findStudentByUserId(buyerUserId) = {} THEN "NotAParticipant"
    ELSE IF ~StudentOf(buyerUserId).isActive THEN "InactiveAccount"
    ELSE IF ~listingExists(listingId) THEN "NotFound"
    ELSE IF ~findListingById(listingId).isAvailable THEN "Unavailable"
    ELSE IF findListingById(listingId).listingType \notin {"SELL", "BOTH"} THEN "WrongListingType"
    ELSE IF findListingById(listingId).ownerId = StudentOf(buyerUserId).id THEN "SelfTrade"
    ELSE "ok"

\* findStudentByUserId, findListingById and the checks on what they return
CreateSellOrder_Begin(p, listingId, buyerUserId) ==
    /\ Free(p)
    /\ Len(orders) + InFlightCreates < MaxOrders
    /\ IF createSellOrderCheck(listingId, buyerUserId) # "ok"
       THEN /\ ret' = [NoRet EXCEPT !.op = "createSellOrder",
                                    !.result = createSellOrderCheck(listingId, buyerUserId)]
            /\ UNCHANGED req
       ELSE /\ req' = [req EXCEPT ![p] =
                        [Idle EXCEPT !.op = "createSellOrder", !.pc = "findActiveOrders",
                                     !.listingId = listingId,
                                     !.buyerId = StudentOf(buyerUserId).id,
                                     !.sellerId = findListingById(listingId).ownerId,
                                     !.price = findListingById(listingId).price]]
            /\ UNCHANGED ret
    /\ UNCHANGED <<orders, listings, sm>>

CreateSellOrder_FindActive_InsertFirst(p) ==
    /\ At(p, "createSellOrder", "findActiveOrders")
    /\ orders' = createOrder([listingId |-> req[p].listingId, buyerId |-> req[p].buyerId,
                              sellerId |-> req[p].sellerId, type |-> "SELL",
                              status |-> PENDING, totalPrice |-> req[p].price])
    /\ IF findActiveOrdersByBuyerAndListing(req[p].buyerId, req[p].listingId) # {}
       THEN ret' = [NoRet EXCEPT !.op = "createSellOrder", !.result = "DuplicateActiveOrder"]
       ELSE ret' = [NoRet EXCEPT !.op = "createSellOrder", !.result = "ok",
                                 !.orderId = Len(orders) + 1, !.newStatus = PENDING,
                                 !.listingId = req[p].listingId]
    /\ req' = [req EXCEPT ![p] = Idle]
    /\ UNCHANGED <<listings, sm>>

\* findActiveOrdersByBuyerAndListing and the duplicate check
CreateSellOrder_FindActive(p) ==
    /\ At(p, "createSellOrder", "findActiveOrders")
    /\ IF findActiveOrdersByBuyerAndListing(req[p].buyerId, req[p].listingId) # {}
       THEN /\ ret' = [NoRet EXCEPT !.op = "createSellOrder", !.result = "DuplicateActiveOrder"]
            /\ req' = [req EXCEPT ![p] = Idle]
       ELSE /\ req' = [req EXCEPT ![p].pc = "createOrder"]
            /\ UNCHANGED ret
    /\ UNCHANGED <<orders, listings, sm>>

\* createOrder, from the listing as it was read
CreateSellOrder_Create(p) ==
    /\ At(p, "createSellOrder", "createOrder")
    /\ orders' = createOrder([listingId |-> req[p].listingId, buyerId |-> req[p].buyerId,
                              sellerId |-> req[p].sellerId, type |-> "SELL",
                              status |-> PENDING, totalPrice |-> req[p].price])
    /\ ret' = [NoRet EXCEPT !.op = "createSellOrder", !.result = "ok",
                            !.orderId = Len(orders) + 1, !.newStatus = PENDING,
                            !.listingId = req[p].listingId]
    /\ req' = [req EXCEPT ![p] = Idle]
    /\ UNCHANGED <<listings, sm>>

(***************************************************************************)
(* OrderService.updateOrderStatus                                          *)
(***************************************************************************)
updateOrderStatusCheck_RoleFirst(orderId, newStatus, userId) ==
    IF ~orderExists(orderId) THEN "NotFound"
    ELSE IF findStudentByUserId(userId) = {} THEN "NotAParticipant"
    ELSE IF newStatus \in {APPROVED, REJECTED}
            /\ ~(findOrderById(orderId).sellerId = StudentOf(userId).id)
         THEN "NotAuthorized"
    ELSE IF validateStatusTransition(findOrderById(orderId).status, newStatus).kind # "ok"
         THEN "InvalidTransition"
    ELSE "ok"

updateOrderStatusCheck_NoSellerRule(orderId, newStatus, userId) ==
    IF ~orderExists(orderId) THEN "NotFound"
    ELSE IF findStudentByUserId(userId) = {} THEN "NotAParticipant"
    ELSE IF validateStatusTransition(findOrderById(orderId).status, newStatus).kind # "ok"
         THEN "InvalidTransition"
    ELSE "ok"

\* the checks made on the order and the student as read: the error thrown, or "ok"
updateOrderStatusCheck(orderId, newStatus, userId) ==
    IF ~orderExists(orderId) THEN "NotFound"
    ELSE IF findStudentByUserId(userId) = {} THEN "NotAParticipant"
    ELSE IF validateStatusTransition(findOrderById(orderId).status, newStatus).kind # "ok"
         THEN "InvalidTransition"
    ELSE IF newStatus \in {APPROVED, REJECTED}
            /\ ~(findOrderById(orderId).sellerId = StudentOf(userId).id)
         THEN "NotAuthorized"
    ELSE "ok"

\* findOrderById, findStudentByUserId, validateStatusTransition, the seller rule
UpdateOrderStatus_Begin(p, orderId, newStatus, userId) ==
    /\ Free(p)
    /\ IF updateOrderStatusCheck(orderId, newStatus, userId) # "ok"
       THEN /\ ret' = [NoRet EXCEPT !.op = "updateOrderStatus",
                                    !.result = updateOrderStatusCheck(orderId, newStatus, userId)]
            /\ UNCHANGED req
       ELSE /\ req' = [req EXCEPT ![p] =
                        [Idle EXCEPT !.op = "updateOrderStatus", !.pc = "updateOrderStatus",
                                     !.orderId = orderId, !.newStatus = newStatus,
                                     !.listingId = findOrderById(orderId).listingId]]
            /\ UNCHANGED ret
    /\ UNCHANGED <<orders, listings, sm>>

\* orderRepository.updateOrderStatus(orderId, newStatus)
UpdateOrderStatus_Write(p) ==
    /\ At(p, "updateOrderStatus", "updateOrderStatus")
    /\ orders' = repoUpdateOrderStatus(req[p].orderId, req[p].newStatus)
    /\ IF req[p].newStatus = COMPLETED
       THEN /\ req' = [req EXCEPT ![p].pc = "updateListingAvailability"]
            /\ UNCHANGED ret
       ELSE /\ ret' = [NoRet EXCEPT !.op = "updateOrderStatus", !.result = "ok",
                                    !.orderId = req[p].orderId,
                                    !.newStatus = req[p].newStatus,
                                    !.listingId = req[p].listingId]
            /\ req' = [req EXCEPT ![p] = Idle]
    /\ UNCHANGED <<listings, sm>>

\* orderRepository.updateListingAvailability(order.listingId, false)
UpdateOrderStatus_Flip(p) ==
    /\ At(p, "updateOrderStatus", "updateListingAvailability")
    /\ listings' = updateListingAvailability(req[p].listingId, FALSE)
    /\ ret' = [NoRet EXCEPT !.op = "updateOrderStatus", !.result = "ok",
                            !.orderId = req[p].orderId, !.newStatus = req[p].newStatus,
                            !.listingId = req[p].listingId]
    /\ req' = [req EXCEPT ![p] = Idle]
    /\ UNCHANGED <<orders, sm>>

(***************************************************************************)
(* OrderService.cancelOrder                                                *)
(***************************************************************************)
cancelOrderCheck_BuyerOnly(orderId, userId) ==
    IF ~orderExists(orderId) THEN "NotFound"
    ELSE IF findStudentByUserId(userId) = {} THEN "NotAParticipant"
    ELSE IF validateCancellation(findOrderById(orderId).status) # "ok"
         THEN "CancellationNotAllowed"
    ELSE IF ~(findOrderById(orderId).buyerId = StudentOf(userId).id)
         THEN "NotAuthorized"
    ELSE "ok"

cancelOrderCheck_AnyStudent(orderId, userId) ==
    IF ~orderExists(orderId) THEN "NotFound"
    ELSE IF findStudentByUserId(userId) = {} THEN "NotAParticipant"
    ELSE IF validateCancellation(findOrderById(orderId).status) # "ok"
         THEN "CancellationNotAllowed"
    ELSE "ok"

\* the checks of cancelOrder on the order and the student as read: the error, or "ok"
cancelOrderCheck(orderId, userId) ==
    IF ~orderExists(orderId) THEN "NotFound"
    ELSE IF findStudentByUserId(userId) = {} THEN "NotAParticipant"
    ELSE IF validateCancellation(findOrderById(orderId).status) # "ok"
         THEN "CancellationNotAllowed"
    ELSE IF ~(findOrderById(orderId).buyerId = StudentOf(userId).id)
            /\ ~(findOrderById(orderId).sellerId = StudentOf(userId).id)
         THEN "NotAuthorized"
    ELSE "ok"

\* findOrderById, findStudentByUserId, validateCancellation, the participant rule
CancelOrder_Begin(p, orderId, userId) ==
    /\ Free(p)
    /\ IF cancelOrderCheck(orderId, userId) # "ok"
       THEN /\ ret' = [NoRet EXCEPT !.op = "cancelOrder",
                                    !.result = cancelOrderCheck(orderId, userId)]
            /\ UNCHANGED req
       ELSE /\ req' = [req EXCEPT ![p] =
                        [Idle EXCEPT !.op = "cancelOrder", !.pc = "updateOrderStatus",
                                     !.orderId = orderId, !.newStatus = CANCELLED,
                                     !.listingId = findOrderById(orderId).listingId]]
            /\ UNCHANGED ret
    /\ UNCHANGED <<orders, listings, sm>>

\* orderRepository.updateOrderStatus(orderId, CANCELLED)
CancelOrder_Write(p) ==
    /\ At(p, "cancelOrder", "updateOrderStatus")
    /\ orders' = repoUpdateOrderStatus(req[p].orderId, CANCELLED)
    /\ ret' = [NoRet EXCEPT !.op = "cancelOrder", !.result = "ok",
                            !.orderId = req[p].orderId, !.newStatus = CANCELLED,
                            !.listingId = req[p].listingId]
    /\ req' = [req EXCEPT ![p] = Idle]
    /\ UNCHANGED <<listings, sm>>

(***************************************************************************)
(* ListingService.update, ListingService.delete                            *)
(***************************************************************************)
listingUpdateCheck(listingId, ownerId) ==
    IF findByIdAndOwner(listingId, ownerId) = {} THEN "NotFound"
    ELSE IF hasActiveOrders(listingId) THEN "HasActiveOrders"
    ELSE "ok"

\* findByIdAndOwner and hasActiveOrders
ListingUpdate_Begin(p, listingId, ownerId, updateData) ==
    /\ Free(p)
    /\ IF listingUpdateCheck(listingId, ownerId) # "ok"
       THEN /\ ret' = [NoRet EXCEPT !.op = "listingUpdate",
                                    !.result = listingUpdateCheck(listingId, ownerId)]
            /\ UNCHANGED req
       ELSE /\ req' = [req EXCEPT ![p] =
                        [Idle EXCEPT !.op = "listingUpdate", !.pc = "update",
                                     !.listingId = listingId, !.data = updateData]]
            /\ UNCHANGED ret
    /\ UNCHANGED <<orders, listings, sm>>

\* listingRepository.update(listingId, updateData)
ListingUpdate_Write(p) ==
    /\ At(p, "listingUpdate", "update")
    /\ listings' = listingRepoUpdate(req[p].listingId, req[p].data)
    /\ ret' = [NoRet EXCEPT !.op = "listingUpdate", !.result = "ok",
                            !.listingId = req[p].listingId]
    /\ req' = [req EXCEPT ![p] = Idle]
    /\ UNCHANGED <<orders, sm>>

\* findByIdAndOwner, then softDelete
ListingDelete(p, listingId, ownerId) ==
    /\ Free(p)
    /\ IF findByIdAndOwner(listingId, ownerId) = {}
       THEN /\ ret' = [NoRet EXCEPT !.op = "listingDelete", !.result = "NotFound"]
            /\ UNCHANGED listings
       ELSE /\ listings' = softDelete(listingId)
            /\ ret' = [NoRet EXCEPT !.op = "listingDelete", !.result = "ok",
                                    !.listingId = listingId]
    /\ UNCHANGED <<orders, req, sm>>

\* the response has been sent
Respond ==
    /\ ~Quiet
    /\ ret' = NoRet
    /\ UNCHANGED <<orders, listings, req, sm>>

(***************************************************************************)
(* The process ends (SIGINT: process.exit) with requests in flight; what   *)
(* they had written stays written, what they had not is never written.     *)
(***************************************************************************)
Shutdown ==
    /\ Quiet
    /\ \E p \in Procs : req[p].pc # "idle"
    /\ req' = [p \in Procs |-> Idle]
    /\ UNCHANGED <<orders, listings, ret, sm>>

Next ==
    \/ \E p \in Procs, l \in ListingIds \cup {MissingListing}, u \in Users :
          CreateSellOrder_Begin(p, l, u)
    \/ \E p \in Procs : CreateSellOrder_FindActive(p)
    \/ \E p \in Procs : CreateSellOrder_Create(p)
    \/ \E p \in Procs, o \in OrderIds, s \in OrderStatus, u \in Users :
          UpdateOrderStatus_Begin(p, o, s, u)
    \/ \E p \in Procs : UpdateOrderStatus_Write(p)
    \/ \E p \in Procs : UpdateOrderStatus_Flip(p)
    \/ \E p \in Procs, o \in OrderIds, u \in Users : CancelOrder_Begin(p, o, u)
    \/ \E p \in Procs : CancelOrder_Write(p)
    \/ \E p \in Procs, r \in ListingRequests, d \in UpdateData :
          ListingUpdate_Begin(p, r.listingId, r.ownerId, d)
    \/ \E p \in Procs : ListingUpdate_Write(p)
    \/ \E p \in Procs, r \in ListingRequests : ListingDelete(p, r.listingId, r.ownerId)
    \/ Respond
    \/ Shutdown

Spec == Init /\ [][Next]_vars

(***************************************************************************)
(* The same handlers with the owner changing the listing's price while     *)
(* orders are created and cancelled.                                       *)
(***************************************************************************)
NextPrice ==
    \/ \E p \in Procs, l \in ListingIds, u \in Users : CreateSellOrder_Begin(p, l, u)
    \/ \E p \in Procs : CreateSellOrder_FindActive(p)
    \/ \E p \in Procs : CreateSellOrder_Create(p)
    \/ \E p \in Procs, o \in OrderIds, u \in Users : CancelOrder_Begin(p, o, u)
    \/ \E p \in Procs : CancelOrder_Write(p)
    \/ \E p \in Procs, r \in ListingRequests, d \in PriceData :
          ListingUpdate_Begin(p, r.listingId, r.ownerId, d)
    \/ \E p \in Procs : ListingUpdate_Write(p)
    \/ Respond

SpecPrice == Init /\ [][NextPrice]_vars


(***************************************************************************)
(* The orders of a listing moved through their statuses and cancelled      *)
(* while the owner changes the listing's price.                            *)
(***************************************************************************)
\* the status requests sent here: the seller's negotiation, approval and rejection
FrameStatuses == {NEGOTIATING, APPROVED, REJECTED}

NextFrame ==
    \/ \E p \in Procs, l \in ListingIds, u \in Users : CreateSellOrder_Begin(p, l, u)
    \/ \E p \in Procs : CreateSellOrder_FindActive(p)
    \/ \E p \in Procs : CreateSellOrder_Create(p)
    \/ \E p \in Procs, o \in OrderIds, s \in FrameStatuses, u \in Users :
          UpdateOrderStatus_Begin(p, o, s, u)
    \/ \E p \in Procs : UpdateOrderStatus_Write(p)
    \/ \E p \in Procs, o \in OrderIds, u \in Users : CancelOrder_Begin(p, o, u)
    \/ \E p \in Procs : CancelOrder_Write(p)
    \/ \E p \in Procs, r \in ListingRequests, d \in PriceData :
          ListingUpdate_Begin(p, r.listingId, r.ownerId, d)
    \/ \E p \in Procs : ListingUpdate_Write(p)
    \/ Respond

SpecFrame == Init /\ [][NextFrame]_vars

(***************************************************************************)
(* Two buyers on one listing: the students of u2 and u5 order listing L1   *)
(* of u1, and the three of them move the orders through the workflow.      *)
(***************************************************************************)
Buyers == {"u2", "u5"}

NextSold ==
    \/ \E p \in Procs, u \in Buyers : CreateSellOrder_Begin(p, "L1", u)
    \/ \E p \in Procs : CreateSellOrder_FindActive(p)
    \/ \E p \in Procs : CreateSellOrder_Create(p)
    \/ \E p \in Procs, o \in OrderIds, s \in OrderStatus, u \in Buyers \cup {"u1"} :
          UpdateOrderStatus_Begin(p, o, s, u)
    \/ \E p \in Procs : UpdateOrderStatus_Write(p)
    \/ \E p \in Procs : UpdateOrderStatus_Flip(p)
    \/ Respond

SpecSold == Init /\ [][NextSold]_vars

(***************************************************************************)
(* createSellOrder on listings of every type and availability: the store   *)
(* starts with the two listings as their owners may have created, updated  *)
(* and deleted them; orders are created and cancelled.                     *)
(***************************************************************************)
\* the listing types createListingValidator accepts
ListingTypes == {"SELL", "RENT", "BOTH"}

InitCreate ==
    /\ orders = <<>>
    /\ listings \in
         {[l \in ListingIds |->
             [ownerId |-> IF l = "L1" THEN "s1" ELSE "s2", price |-> BasePrice,
              listingType |-> t[l], isAvailable |-> a[l]]] :
          t \in [ListingIds -> ListingTypes], a \in [ListingIds -> BOOLEAN]}
    /\ req = [p \in Procs |-> Idle]
    /\ ret = NoRet
    /\ sm = SMIdle

NextCreate ==
    \/ \E p \in Procs, l \in ListingIds \cup {MissingListing}, u \in Users :
          CreateSellOrder_Begin(p, l, u)
    \/ \E p \in Procs : CreateSellOrder_FindActive(p)
    \/ \E p \in Procs : CreateSellOrder_Create(p)
    \/ \E p \in Procs, o \in OrderIds, u \in Users : CancelOrder_Begin(p, o, u)
    \/ \E p \in Procs : CancelOrder_Write(p)
    \/ \E p \in Procs, r \in ListingRequests : ListingDelete(p, r.listingId, r.ownerId)
    \/ Respond

SpecCreate == InitCreate /\ [][NextCreate]_vars

\* the error createSellOrder throws at each of its checks: its class and its message
createSellOrderError(kind) ==
    CASE kind = "NotAParticipant" ->
           [class |-> "ForbiddenError", message |-> "Only students can create orders"]
      [] kind = "InactiveAccount" ->
           [class |-> "ForbiddenError", message |-> "Your student account is not active"]
      [] kind = "NotFound" ->
           [class |-> "NotFoundError", message |-> "Listing not found"]
      [] kind = "Unavailable" ->
           [class |-> "BadRequestError", message |-> "Listing is not available"]
      [] kind = "WrongListingType" ->
           [class |-> "BadRequestError", message |-> "Listing is not available for sale"]
      [] kind = "SelfTrade" ->
           [class |-> "BadRequestError", message |-> "You cannot buy your own listing"]
      [] kind = "DuplicateActiveOrder" ->
           [class |-> "BadRequestError",
            message |-> "You already have an active order for this listing"]

(***************************************************************************)
(* The pure functions of OrderStateMachine.js, applied to inputs drawn     *)
(* from the eight statuses, a status string that is none of them, and the  *)
(* name of an inherited member.                                            *)
(***************************************************************************)
SMInputs == OrderStatus \cup {"ACTIVE"} \cup InheritedKeys

SMInit ==
    /\ StoreInit
    /\ sm \in {[SMIdle EXCEPT !.current = c, !.next = n] : c \in SMInputs, n \in SMInputs}

SMCall(fn, bool, set, kind) ==
    /\ sm' = [sm EXCEPT !.fn = fn, !.bool = bool, !.set = set, !.kind = kind, !.msg = <<>>]
    /\ UNCHANGED <<orders, listings, req, ret>>

SM_isValidTransition ==
    IF isValidTransitionThrows(sm.current, sm.next)
    THEN SMCall("isValidTransition", FALSE, {}, "TypeError")
    ELSE SMCall("isValidTransition", isValidTransition(sm.current, sm.next), {}, "returned")

SM_getAllowedTransitions ==
    SMCall("getAllowedTransitions", FALSE, getAllowedTransitions(sm.current), "none")

SM_canCancel == SMCall("canCancel", canCancel(sm.current), {}, "none")

SM_cannotCancel == SMCall("cannotCancel", cannotCancel(sm.current), {}, "none")

SM_validateStatusTransition ==
    /\ sm' = [sm EXCEPT !.fn = "validateStatusTransition", !.bool = FALSE,
                        !.set = validateStatusTransition(sm.current, sm.next).allowed,
                        !.kind = validateStatusTransition(sm.current, sm.next).kind,
                        !.msg = validateStatusTransition(sm.current, sm.next).message]
    /\ UNCHANGED <<orders, listings, req, ret>>

SM_validateCancellation ==
    SMCall("validateCancellation", FALSE, {}, validateCancellation(sm.current))

SMNext ==
    \/ SM_isValidTransition
    \/ SM_getAllowedTransitions
    \/ SM_canCancel
    \/ SM_cannotCancel
    \/ SM_validateStatusTransition
    \/ SM_validateCancellation

SpecSM == SMInit /\ [][SMNext]_vars

(***************************************************************************)
(* Properties                                                              *)
(***************************************************************************)
TerminalStatuses == {REJECTED, CANCELLED, COMPLETED}

\* the allowed-transitions table as the design states it
DesignTable(current) ==
    CASE current = PENDING -> {NEGOTIATING, CANCELLED}
      [] current = NEGOTIATING -> {APPROVED, REJECTED, CANCELLED}
      [] current = APPROVED -> {PAYMENT_PENDING, CANCELLED}
      [] current = PAYMENT_PENDING -> {PAID, CANCELLED}
      [] current = PAID -> {COMPLETED}
      [] current \in {COMPLETED, REJECTED, CANCELLED} -> {}

\* C1: for every pair of the eight statuses, isValidTransition(current, next) is true
\* exactly when next is in the design's table for current; so it is false for
\* next = current and for a skipping pair such as PENDING -> PAID.
C1_IsValidTransitionIsTable ==
    (sm.fn = "isValidTransition" /\ sm.current \in OrderStatus /\ sm.next \in OrderStatus)
        => /\ sm.bool <=> (sm.next \in DesignTable(sm.current))
           /\ (sm.next = sm.current) => ~sm.bool
           /\ (sm.current = PENDING /\ sm.next = PAID) => ~sm.bool

C1_Witness ==
    sm.fn = "isValidTransition" /\ sm.current = PENDING /\ sm.next = PAID /\ ~sm.bool

\* C2: in every state, also between the two writes of updateOrderStatus and after a
\* shutdown between them, a COMPLETED order's listing is not available.
C2_CompletedImpliesUnavailable ==
    \A o \in 1..Len(orders) :
        orders[o].status = COMPLETED => ~listings[orders[o].listingId].isAvailable

\* C3: two status changes racing on one order never both succeed with two different
\* terminal statuses: no successful write replaces a terminal status by another one.
C3_NoTwoTerminalOutcomes ==
    [][\A p \in Procs :
          (UpdateOrderStatus_Write(p) \/ CancelOrder_Write(p))
             => ~(/\ orders[req[p].orderId].status \in TerminalStatuses
                  /\ orders'[req[p].orderId].status \in TerminalStatuses
                  /\ orders'[req[p].orderId].status # orders[req[p].orderId].status)]_vars

\* C4: every change of an order's persisted status from s to t is a legal transition
\* from s, the status persisted immediately before the write.
C4_EveryChangeIsLegal ==
    [][\A o \in 1..Len(orders) :
          orders'[o].status # orders[o].status
             => isValidTransition(orders[o].status, orders'[o].status)]_vars

\* C5: an order becomes APPROVED or REJECTED only by the write of an updateOrderStatus
\* call that asked for it, such a call passes its checks only when the acting user's
\* student is the order's seller, and the call NEGOTIATING -> APPROVED / REJECTED by
\* any other student throws NotAuthorized and leaves the orders as they were.
C5_OnlySellerApprovesOrRejects ==
    [][/\ \A o \in 1..Len(orders) :
             (orders'[o].status \in {APPROVED, REJECTED} /\ orders'[o].status # orders[o].status)
                => \E p \in Procs : /\ UpdateOrderStatus_Write(p)
                                    /\ req[p].orderId = o
                                    /\ req[p].newStatus = orders'[o].status
       /\ \A p \in Procs :
             (/\ req[p].pc = "idle"
              /\ req'[p].op = "updateOrderStatus"
              /\ req'[p].newStatus \in {APPROVED, REJECTED})
                => \A u \in Users :
                      UpdateOrderStatus_Begin(p, req'[p].orderId, req'[p].newStatus, u)
                         => /\ findStudentByUserId(u) # {}
                            /\ StudentOf(u).id = orders[req'[p].orderId].sellerId
       /\ \A o \in 1..Len(orders), u \in Users :
             (/\ orders[o].status = NEGOTIATING
              /\ findStudentByUserId(u) # {}
              /\ StudentOf(u).id # orders[o].sellerId)
                => \A p \in Procs, s \in {APPROVED, REJECTED} :
                      UpdateOrderStatus_Begin(p, o, s, u)
                         => /\ ret'.op = "updateOrderStatus" /\ ret'.result = "NotAuthorized"
                            /\ orders' = orders]_vars

C5_Witness ==
    /\ ret.op = "updateOrderStatus" /\ ret.result = "NotAuthorized"
    /\ \E o \in 1..Len(orders) : orders[o].status = NEGOTIATING


SameBuyerAndListing(i, j) ==
    orders[i].buyerId = orders[j].buyerId /\ orders[i].listingId = orders[j].listingId

\* C6: in every state, for every buyer and listing, at most one order of that buyer
\* on that listing has a non-terminal status.
C6_OneActiveOrderPerBuyerAndListing ==
    \A i, j \in 1..Len(orders) :
        (i # j /\ SameBuyerAndListing(i, j))
            => (orders[i].status \in TerminalStatuses \/ orders[j].status \in TerminalStatuses)

\* C7: the duplicate check of createSellOrder throws DuplicateActiveOrder whenever the
\* buyer has an order on the listing that is PENDING, NEGOTIATING, APPROVED,
\* PAYMENT_PENDING or PAID.
C7_PaidBlocksDuplicate ==
    [][\A p \in Procs :
          (/\ CreateSellOrder_FindActive(p)
           /\ \E i \in 1..Len(orders) :
                 /\ orders[i].buyerId = req[p].buyerId
                 /\ orders[i].listingId = req[p].listingId
                 /\ orders[i].status \in {PENDING, NEGOTIATING, APPROVED, PAYMENT_PENDING, PAID})
             => /\ ret'.op = "createSellOrder" /\ ret'.result = "DuplicateActiveOrder"
                /\ orders' = orders]_vars

OrdersOf(buyerId, listingId) ==
    {i \in 1..Len(orders) : orders[i].buyerId = buyerId /\ orders[i].listingId = listingId}

\* C8: with a PENDING order of the buyer on the listing, the duplicate check of a
\* second createSellOrder throws DuplicateActiveOrder and no order is created; with
\* the buyer's orders on the listing all CANCELLED, the check passes, and the call
\* then creates one new PENDING order of that buyer on that listing and returns it.
C8_DuplicateWhilePendingThenAllowed ==
    [][\A p \in Procs :
          /\ (/\ req[p].pc = "findActiveOrders"
              /\ \E i \in OrdersOf(req[p].buyerId, req[p].listingId) : orders[i].status = PENDING
              /\ CreateSellOrder_FindActive(p))
                => /\ ret'.op = "createSellOrder" /\ ret'.result = "DuplicateActiveOrder"
                   /\ orders' = orders
          /\ (/\ req[p].pc = "findActiveOrders"
              /\ OrdersOf(req[p].buyerId, req[p].listingId) # {}
              /\ \A i \in OrdersOf(req[p].buyerId, req[p].listingId) : orders[i].status = CANCELLED
              /\ CreateSellOrder_FindActive(p))
                => /\ req'[p].pc = "createOrder"
                   /\ ret' = NoRet
          /\ (req[p].pc = "createOrder" /\ CreateSellOrder_Create(p))
                => /\ Len(orders') = Len(orders) + 1
                   /\ SubSeq(orders', 1, Len(orders)) = orders
                   /\ orders'[Len(orders')].status = PENDING
                   /\ orders'[Len(orders')].buyerId = req[p].buyerId
                   /\ orders'[Len(orders')].listingId = req[p].listingId
                   /\ ret'.op = "createSellOrder" /\ ret'.result = "ok"
                   /\ ret'.orderId = Len(orders')]_vars

C8_Witness ==
    /\ ret.op = "createSellOrder" /\ ret.result = "ok" /\ ret.orderId = 2
    /\ Len(orders) = 2
    /\ SameBuyerAndListing(1, 2)
    /\ orders[1].status = CANCELLED
    /\ orders[2].status = PENDING
    /\ listings[orders[2].listingId].isAvailable

\* C9: when updateOrderStatus to COMPLETED returns the order, the order's listing is
\* not available.
C9_CompletedReturnsWithListingUnavailable ==
    (ret.op = "updateOrderStatus" /\ ret.result = "ok" /\ ret.newStatus = COMPLETED)
        => ~listings[orders[ret.orderId].listingId].isAvailable

C9_Witness ==
    /\ ret.op = "updateOrderStatus" /\ ret.result = "ok" /\ ret.newStatus = COMPLETED
    /\ orders[ret.orderId].status = COMPLETED

\* C10: the steps of createSellOrder before its write change no order and no listing;
\* its write appends exactly one order: PENDING, SELL, of the buyer's student, on the
\* listing read, sold by that listing's owner, at the price read from the listing in
\* this call; the write changes no other order and no listing.
C10_CreatePersistsOneOrderAsRead ==
    [][\A p \in Procs :
          /\ (req[p].pc = "idle" /\ req'[p].op = "createSellOrder")
                => \A l \in ListingIds, u \in Users :
                      CreateSellOrder_Begin(p, l, u)
                         => /\ req'[p].buyerId = StudentOf(u).id
                            /\ req'[p].listingId = l
                            /\ req'[p].price = listings[l].price
                            /\ orders' = orders /\ listings' = listings
          /\ (req[p].pc = "findActiveOrders" /\ CreateSellOrder_FindActive(p))
                => /\ orders' = orders /\ listings' = listings
                   /\ req'[p].pc = "createOrder" => req'[p].price = req[p].price
          /\ (req[p].pc = "createOrder" /\ CreateSellOrder_Create(p))
                => /\ orders' = orders \o
                        <<[listingId |-> req[p].listingId, buyerId |-> req[p].buyerId,
                           sellerId |-> listings[req[p].listingId].ownerId, type |-> "SELL",
                           status |-> PENDING, totalPrice |-> req[p].price]>>
                   /\ listings' = listings
                   /\ ret'.op = "createSellOrder" /\ ret'.result = "ok"]_vars

\* an order just created at a price the listing no longer has
C10_Witness ==
    /\ ret.op = "createSellOrder" /\ ret.result = "ok"
    /\ orders[ret.orderId].status = PENDING
    /\ orders[ret.orderId].totalPrice # listings[orders[ret.orderId].listingId].price

\* C11: in every state, every persisted order has a buyer that is not its seller.
C11_BuyerIsNotSeller ==
    \A o \in 1..Len(orders) : orders[o].buyerId # orders[o].sellerId

\* an order exists and the owner of a listing has just been refused an order on it
C11_Witness ==
    /\ Len(orders) >= 1
    /\ ret.op = "createSellOrder" /\ ret.result = "SelfTrade"

\* C12: terminal statuses are absorbing: once an order's persisted status is REJECTED,
\* COMPLETED or CANCELLED, no step of any updateOrderStatus or cancelOrder call
\* changes that order's status.
C12_TerminalIsAbsorbing ==
    [][\A o \in 1..Len(orders) :
          orders[o].status \in TerminalStatuses => orders'[o].status = orders[o].status]_vars

\* C13: for each of the eight order statuses s, validateCancellation(s) passes exactly
\* when isValidTransition(s, CANCELLED) is true, which is exactly when
\* validateStatusTransition(s, CANCELLED) passes: cancelOrder and
\* updateOrderStatus(CANCELLED) accept the same current statuses.
C13_CancelRuleIsTableRule ==
    (sm.fn = "validateCancellation" /\ sm.current \in OrderStatus)
        => /\ (sm.kind = "ok") <=> isValidTransition(sm.current, CANCELLED)
           /\ (sm.kind = "ok") <=> (validateStatusTransition(sm.current, CANCELLED).kind = "ok")
           /\ (sm.kind = "ok") <=> (CANCELLED \in DesignTable(sm.current))

C13_Witness ==
    /\ sm.fn = "validateCancellation" /\ sm.current = PAID
    /\ sm.kind = "CancellationNotAllowed"
    /\ ~isValidTransition(PAID, CANCELLED)

\* the student of user u is the buyer or the seller of order o
IsParty(o, u) ==
    /\ findStudentByUserId(u) # {}
    /\ StudentOf(u).id \in {orders[o].buyerId, orders[o].sellerId}

\* C14: cancelOrder by the order's buyer or seller passes its checks when the order is
\* PENDING, NEGOTIATING, APPROVED or PAYMENT_PENDING, and its write then sets the
\* order to CANCELLED and the call returns it; when the order is PAID, COMPLETED,
\* REJECTED or CANCELLED the call throws CancellationNotAllowed and no order changes.
C14_CancelByParty ==
    [][\A p \in Procs :
          /\ (req[p].pc = "idle" /\ (req'[p].op = "cancelOrder" \/ ret'.op = "cancelOrder"))
                => \A o \in 1..Len(orders), u \in Users :
                      (IsParty(o, u) /\ CancelOrder_Begin(p, o, u))
                         => IF orders[o].status \in {PENDING, NEGOTIATING, APPROVED, PAYMENT_PENDING}
                            THEN /\ req'[p].op = "cancelOrder" /\ req'[p].orderId = o
                                 /\ ret' = NoRet
                                 /\ orders' = orders
                            ELSE /\ orders[o].status \in {PAID, COMPLETED, REJECTED, CANCELLED}
                                 /\ ret'.op = "cancelOrder"
                                 /\ ret'.result = "CancellationNotAllowed"
                                 /\ req' = req
                                 /\ orders' = orders
          /\ (req[p].op = "cancelOrder" /\ CancelOrder_Write(p))
                => /\ orders'[req[p].orderId].status = CANCELLED
                   /\ \A o \in 1..Len(orders) : o # req[p].orderId => orders'[o] = orders[o]
                   /\ ret'.op = "cancelOrder" /\ ret'.result = "ok"
                   /\ ret'.orderId = req[p].orderId /\ ret'.newStatus = CANCELLED]_vars

\* a cancelOrder call has returned the order it cancelled
C14_Witness ==
    /\ ret.op = "cancelOrder" /\ ret.result = "ok"
    /\ orders[ret.orderId].status = CANCELLED

\* C15: cancelOrder on an order in a cancellable status by a user whose student is
\* neither the order's buyer nor its seller throws NotAuthorized, starts no write and
\* leaves every order as it was.
C15_CancelByStranger ==
    [][\A p \in Procs :
          (req[p].pc = "idle" /\ (req'[p].op = "cancelOrder" \/ ret'.op = "cancelOrder"))
             => \A o \in 1..Len(orders), u \in Users :
                   (/\ orders[o].status \in cancellableStatuses
                    /\ findStudentByUserId(u) # {}
                    /\ ~IsParty(o, u)
                    /\ CancelOrder_Begin(p, o, u))
                      => /\ ret'.op = "cancelOrder" /\ ret'.result = "NotAuthorized"
                         /\ req' = req
                         /\ orders' = orders]_vars

C15_Witness ==
    /\ ret.op = "cancelOrder" /\ ret.result = "NotAuthorized"
    /\ Len(orders) = 1
    /\ orders[1].status = APPROVED

BusinessErrors ==
    {"NotFound", "NotAParticipant", "InactiveAccount", "Unavailable", "WrongListingType",
     "SelfTrade", "DuplicateActiveOrder", "InvalidTransition", "CancellationNotAllowed",
     "NotAuthorized"}

OrderOps == {"createSellOrder", "updateOrderStatus", "cancelOrder"}

\* C16: a createSellOrder, updateOrderStatus or cancelOrder call that throws one of the
\* business-rule errors changes nothing: the step that throws leaves the orders and
\* the listings as they were, and the call that throws is at its first step or at
\* the duplicate check of createSellOrder, so it has made no write before.
C16_FailedCallWritesNothing ==
    [][(ret = NoRet /\ ret'.op \in OrderOps /\ ret'.result \in BusinessErrors)
          => /\ orders' = orders
             /\ listings' = listings
             /\ \A p \in Procs :
                   req'[p] # req[p]
                      => /\ req[p].op = "createSellOrder" /\ req[p].pc = "findActiveOrders"
                         /\ ret'.result = "DuplicateActiveOrder"]_vars

\* a refused duplicate, with the order it duplicates in the table
C16_Witness ==
    /\ ret.op = "createSellOrder" /\ ret.result = "DuplicateActiveOrder"
    /\ Len(orders) = 1
    /\ orders[1].status = PENDING

\* the user resolves to a student, and the student is active
ActiveStudent(u) == findStudentByUserId(u) # {} /\ StudentOf(u).isActive

\* a createSellOrder call takes its first step in slot p
CreateBegins(p) ==
    req[p].pc = "idle" /\ (req'[p].op = "createSellOrder" \/ ret'.op = "createSellOrder")

\* C17 as stated: createSellOrder on a listing that is not available throws Unavailable
\* whatever the listing's type and owner, the buyer's orders, the buyer's identity and
\* active flag, and creates no order.
C17_UnavailableAlways ==
    [][\A p \in Procs :
          CreateBegins(p)
             => \A l \in ListingIds, u \in Users :
                   (~listings[l].isAvailable /\ CreateSellOrder_Begin(p, l, u))
                      => /\ ret'.op = "createSellOrder" /\ ret'.result = "Unavailable"
                         /\ orders' = orders]_vars

\* C17 amended: createSellOrder by a user who resolves to an active student, on a
\* listing that is not available, throws Unavailable whatever the listing's type and
\* owner and the buyer's orders; for any user it creates no order.
C17_UnavailableForActiveStudent ==
    [][\A p \in Procs :
          CreateBegins(p)
             => \A l \in ListingIds, u \in Users :
                   (~listings[l].isAvailable /\ CreateSellOrder_Begin(p, l, u))
                      => /\ ActiveStudent(u)
                            => (ret'.op = "createSellOrder" /\ ret'.result = "Unavailable")
                         /\ ret' # NoRet
                         /\ req' = req
                         /\ orders' = orders]_vars

\* with every listing unavailable and of type RENT and no order in the table, a
\* createSellOrder call has been refused as Unavailable
C17_Witness ==
    /\ ret.op = "createSellOrder" /\ ret.result = "Unavailable"
    /\ \A l \in ListingIds : ~listings[l].isAvailable /\ listings[l].listingType = "RENT"
    /\ orders = <<>>

\* C18 as stated: createSellOrder by the student who owns the listing throws SelfTrade
\* for every value of the listing's isAvailable and listingType, and creates no order.
C18_SelfTradeAlways ==
    [][\A p \in Procs :
          CreateBegins(p)
             => \A l \in ListingIds, u \in Users :
                   (/\ findStudentByUserId(u) # {}
                    /\ listings[l].ownerId = StudentOf(u).id
                    /\ CreateSellOrder_Begin(p, l, u))
                      => /\ ret'.op = "createSellOrder" /\ ret'.result = "SelfTrade"
                         /\ orders' = orders]_vars

\* C18 amended: createSellOrder by the active student who owns the listing throws
\* SelfTrade when the listing is available and of type SELL or BOTH; for every value
\* of isAvailable and listingType the owner's call is refused and creates no order.
C18_SelfTradeOnSellableListing ==
    [][\A p \in Procs :
          CreateBegins(p)
             => \A l \in ListingIds, u \in Users :
                   (/\ findStudentByUserId(u) # {}
                    /\ listings[l].ownerId = StudentOf(u).id
                    /\ CreateSellOrder_Begin(p, l, u))
                      => /\ (/\ StudentOf(u).isActive
                             /\ listings[l].isAvailable
                             /\ listings[l].listingType \in {"SELL", "BOTH"})
                            => (ret'.op = "createSellOrder" /\ ret'.result = "SelfTrade")
                         /\ ret' # NoRet
                         /\ req' = req
                         /\ orders' = orders]_vars

\* the owner of a listing has been refused as SelfTrade while another student holds
\* an order on that listing
C18_Witness ==
    /\ ret.op = "createSellOrder" /\ ret.result = "SelfTrade"
    /\ Len(orders) >= 1
    /\ \A l \in ListingIds : listings[l].isAvailable /\ listings[l].listingType = "BOTH"

\* the preconditions of createSellOrder in the order the design lists them
CreatePreconditions ==
    <<"NotAParticipant", "InactiveAccount", "NotFound", "Unavailable", "WrongListingType",
      "SelfTrade", "DuplicateActiveOrder">>

\* precondition k is violated by the call createSellOrder(l, u) in the current state
CreateViolated(k, l, u) ==
    CASE k = "NotAParticipant" -> findStudentByUserId(u) = {}
      [] k = "InactiveAccount" -> \E s \in findStudentByUserId(u) : ~s.isActive
      [] k = "NotFound" -> l \notin DOMAIN listings
      [] k = "Unavailable" -> l \in DOMAIN listings /\ ~listings[l].isAvailable
      [] k = "WrongListingType" ->
           l \in DOMAIN listings /\ listings[l].listingType \notin {"SELL", "BOTH"}
      [] k = "SelfTrade" ->
           l \in DOMAIN listings /\ \E s \in findStudentByUserId(u) : s.id = listings[l].ownerId
      [] k = "DuplicateActiveOrder" ->
           \E s \in findStudentByUserId(u) : findActiveOrdersByBuyerAndListing(s.id, l) # {}

ViolatedAt(l, u) ==
    {i \in 1..Len(CreatePreconditions) : CreateViolated(CreatePreconditions[i], l, u)}

FirstViolated(l, u) ==
    IF ViolatedAt(l, u) = {} THEN "ok"
    ELSE CreatePreconditions[CHOOSE i \in ViolatedAt(l, u) : \A j \in ViolatedAt(l, u) : i <= j]

\* C19: createSellOrder reports the first violated precondition in the order
\* NotAParticipant, InactiveAccount, NotFound, Unavailable, WrongListingType, SelfTrade,
\* DuplicateActiveOrder, also when several are violated at once; the duplicate check
\* runs only when the six before it passed; the errors thrown for the seven
\* preconditions are pairwise distinct.
C19_FirstViolatedIsReported ==
    [][/\ \A p \in Procs :
            /\ CreateBegins(p)
                  => \A l \in ListingIds \cup {MissingListing}, u \in Users :
                        CreateSellOrder_Begin(p, l, u)
                           => IF FirstViolated(l, u) \notin {"ok", "DuplicateActiveOrder"}
                              THEN /\ ret'.op = "createSellOrder"
                                   /\ ret'.result = FirstViolated(l, u)
                                   /\ req' = req
                              ELSE /\ req'[p].op = "createSellOrder"
                                   /\ req'[p].pc = "findActiveOrders"
                                   /\ ret' = NoRet
            /\ (req[p].pc = "findActiveOrders" /\ CreateSellOrder_FindActive(p))
                  => IF findActiveOrdersByBuyerAndListing(req[p].buyerId, req[p].listingId) # {}
                     THEN ret'.op = "createSellOrder" /\ ret'.result = "DuplicateActiveOrder"
                     ELSE req'[p].pc = "createOrder" /\ ret' = NoRet
       /\ \A i, j \in 1..Len(CreatePreconditions) :
            i # j => createSellOrderError(CreatePreconditions[i])
                        # createSellOrderError(CreatePreconditions[j])]_vars

\* a call has been refused as Unavailable in a state where every call that reaches the
\* availability check violates a later precondition as well: the buyer of the pending
\* order on L1 has a duplicate there, L1's owner would trade with themselves, and L2 is
\* an unavailable RENT listing
C19_Witness ==
    /\ ret.op = "createSellOrder" /\ ret.result = "Unavailable"
    /\ Len(orders) = 1
    /\ orders[1].listingId = "L1" /\ orders[1].status = PENDING
    /\ ~listings["L1"].isAvailable
    /\ ~listings["L2"].isAvailable /\ listings["L2"].listingType = "RENT"

\* C20: for every input, also one that is none of the eight statuses,
\* validateCancellation(current) throws CancellationNotAllowed exactly when
\* canCancel(current) is false.
C20_ValidateCancellationIsNotCanCancel ==
    (sm.fn = "validateCancellation")
        => ((sm.kind = "CancellationNotAllowed") <=> ~canCancel(sm.current))

\* the allowed statuses an InvalidTransition message names after "Allowed transitions:"
CarriedAllowed(msg) ==
    IF SubSeq(msg, 6, Len(msg)) = <<"none">> THEN {}
    ELSE {msg[i] : i \in 6..Len(msg)}

C22_CanCancelIsPrePaid ==
    /\ (sm.fn = "canCancel")
          => (sm.bool <=> sm.current \in {PENDING, NEGOTIATING, APPROVED, PAYMENT_PENDING})
    /\ (sm.fn = "canCancel" /\ sm.current \in OrderStatus)
          => (sm.bool <=> ~cannotCancel(sm.current))
    /\ (sm.fn = "cannotCancel" /\ sm.current \in OrderStatus)
          => (sm.bool <=> sm.current \in {PAID, COMPLETED, REJECTED, CANCELLED})
    /\ cancellableStatuses \cap nonCancellableStatuses = {}
    /\ cancellableStatuses \cup nonCancellableStatuses = OrderStatus

C22_Witness ==
    sm.fn = "canCancel" /\ sm.current = PAID /\ ~sm.bool

\* C23: getAllowedTransitions(current) is the table's right-hand side for current: empty
\* for COMPLETED, REJECTED and CANCELLED and for every input that is none of the
\* eight statuses; for statuses s and t, t is in getAllowedTransitions(s) exactly when
\* isValidTransition(s, t).
C23_AllowedIsTableRow ==
    (sm.fn = "getAllowedTransitions")
        => /\ sm.current \in OrderStatus => sm.set = DesignTable(sm.current)
           /\ sm.current \in TerminalStatuses => sm.set = {}
           /\ sm.current \notin OrderStatus => sm.set = {}
           /\ sm.current \in OrderStatus
                => \A t \in OrderStatus : (t \in sm.set) <=> isValidTransition(sm.current, t)

\* C24: the order workflow changes a listing's availability on completion only: a step
\* that changes the listings and is not the owner's update or delete is the
\* listing write of an updateOrderStatus call to COMPLETED, and it changes only the
\* isAvailable of that order's own listing; every step of cancelOrder, of
\* createSellOrder and of updateOrderStatus to another status leaves the listings.
C24_AvailabilityChangesOnCompletionOnly ==
    [][/\ (listings' # listings /\ ret'.op \notin {"listingUpdate", "listingDelete"})
            => \E p \in Procs :
                  /\ req[p].op = "updateOrderStatus"
                  /\ req[p].newStatus = COMPLETED
                  /\ req[p].pc = "updateListingAvailability"
                  /\ req'[p] = Idle
                  /\ ret'.op = "updateOrderStatus" /\ ret'.orderId = req[p].orderId
                  /\ \A l \in ListingIds :
                        /\ l # orders[req[p].orderId].listingId => listings'[l] = listings[l]
                        /\ listings'[l].price = listings[l].price
                        /\ listings'[l].ownerId = listings[l].ownerId
                        /\ listings'[l].listingType = listings[l].listingType
       /\ (req' = req /\ ret = NoRet /\ ret'.op \in OrderOps) => listings' = listings
       /\ \A p \in Procs :
             (/\ req'[p] # req[p]
              /\ \/ req[p].op \in {"cancelOrder", "createSellOrder"}
                 \/ req'[p].op \in {"cancelOrder", "createSellOrder"}
                 \/ (req[p].op = "updateOrderStatus" /\ req[p].newStatus # COMPLETED)
                 \/ (req'[p].op = "updateOrderStatus" /\ req'[p].newStatus # COMPLETED))
                => listings' = listings]_vars

\* an updateOrderStatus to COMPLETED has returned: the order's listing is unavailable,
\* the other listing is as it was
C24_Witness ==
    /\ ret.op = "updateOrderStatus" /\ ret.result = "ok" /\ ret.newStatus = COMPLETED
    /\ ~listings[orders[ret.orderId].listingId].isAvailable
    /\ \E l \in ListingIds : listings[l].isAvailable

\* C25: no step removes an order or changes the totalPrice, buyerId, sellerId, listingId
\* or type of an existing order; the write of updateOrderStatus and of cancelOrder
\* changes nothing but the status of the order it targets; a step that changes a
\* listing (its price) changes no order.
C25_OrderFieldsAreFrozen ==
    [][/\ Len(orders') >= Len(orders)
       /\ \A o \in 1..Len(orders) :
             /\ orders'[o].totalPrice = orders[o].totalPrice
             /\ orders'[o].buyerId = orders[o].buyerId
             /\ orders'[o].sellerId = orders[o].sellerId
             /\ orders'[o].listingId = orders[o].listingId
             /\ orders'[o].type = orders[o].type
       /\ \A p \in Procs :
             (req[p].pc = "updateOrderStatus" /\ req'[p] # req[p])
                => /\ Len(orders') = Len(orders)
                   /\ \A o \in 1..Len(orders) : o # req[p].orderId => orders'[o] = orders[o]
                   /\ orders'[req[p].orderId] =
                         [orders[req[p].orderId] EXCEPT !.status = req[p].newStatus]
       /\ listings' # listings => orders' = orders]_vars

\* the owner has raised the price of a listing; the rejected order on it keeps the
\* price it was created at
C25_Witness ==
    /\ ret.op = "listingUpdate" /\ ret.result = "ok"
    /\ Len(orders) >= 1
    /\ orders[1].status = REJECTED
    /\ orders[1].totalPrice = BasePrice
    /\ listings[orders[1].listingId].price = NewPrice

\* the statuses the happy path leaves, and for each the status it goes to
HappyFrom == {PENDING, NEGOTIATING, APPROVED, PAYMENT_PENDING, PAID}

HappyNext(from) ==
    CASE from = PENDING -> NEGOTIATING
      [] from = NEGOTIATING -> APPROVED
      [] from = APPROVED -> PAYMENT_PENDING
      [] from = PAYMENT_PENDING -> PAID
      [] from = PAID -> COMPLETED

\* user u is the party that takes the happy step out of the status of order o: the
\* seller out of PENDING and NEGOTIATING, the buyer out of APPROVED and
\* PAYMENT_PENDING, either out of PAID
HappyActor(o, u) ==
    /\ orders[o].status \in HappyFrom
    /\ findStudentByUserId(u) # {}
    /\ \/ /\ orders[o].status \in {PENDING, NEGOTIATING}
          /\ StudentOf(u).id = orders[o].sellerId
       \/ /\ orders[o].status \in {APPROVED, PAYMENT_PENDING}
          /\ StudentOf(u).id = orders[o].buyerId
       \/ /\ orders[o].status = PAID
          /\ StudentOf(u).id \in {orders[o].buyerId, orders[o].sellerId}

\* C26: the happy path goes through: createSellOrder by an active student on an
\* available SELL listing of another student, with no order of theirs on it, creates
\* a PENDING order at the listing's price sold by the listing's owner; each of the
\* updates to NEGOTIATING and APPROVED by the seller, to PAYMENT_PENDING and PAID by
\* the buyer and to COMPLETED by either passes its checks on an order in the status
\* before it, writes the new status and returns; the update to COMPLETED returns with
\* the listing unavailable.
C26_HappyPathSucceeds ==
    [][\A p \in Procs :
          /\ CreateBegins(p)
                => \A l \in ListingIds, u \in Users :
                      (/\ ActiveStudent(u)
                       /\ listings[l].isAvailable
                       /\ listings[l].listingType = "SELL"
                       /\ listings[l].ownerId # StudentOf(u).id
                       /\ CreateSellOrder_Begin(p, l, u))
                         => /\ req'[p].pc = "findActiveOrders"
                            /\ req'[p].price = listings[l].price
                            /\ req'[p].sellerId = listings[l].ownerId
                            /\ ret' = NoRet
          /\ (/\ req[p].pc = "findActiveOrders"
              /\ OrdersOf(req[p].buyerId, req[p].listingId) = {}
              /\ CreateSellOrder_FindActive(p))
                => req'[p].pc = "createOrder" /\ ret' = NoRet
          /\ (req[p].pc = "createOrder" /\ CreateSellOrder_Create(p))
                => /\ orders'[Len(orders')].status = PENDING
                   /\ orders'[Len(orders')].totalPrice = req[p].price
                   /\ orders'[Len(orders')].sellerId = req[p].sellerId
                   /\ ret'.op = "createSellOrder" /\ ret'.result = "ok"
          /\ (req[p].pc = "idle" /\ (req'[p].op = "updateOrderStatus" \/ ret'.op = "updateOrderStatus"))
                => \A o \in 1..Len(orders), u \in Users :
                      (/\ HappyActor(o, u)
                       /\ UpdateOrderStatus_Begin(p, o, HappyNext(orders[o].status), u))
                         => /\ req'[p].op = "updateOrderStatus"
                            /\ req'[p].orderId = o
                            /\ req'[p].newStatus = HappyNext(orders[o].status)
                            /\ ret' = NoRet
          /\ (/\ req[p].op = "updateOrderStatus" /\ req[p].pc = "updateOrderStatus"
              /\ UpdateOrderStatus_Write(p))
                => /\ orders'[req[p].orderId].status = req[p].newStatus
                   /\ IF req[p].newStatus = COMPLETED
                      THEN req'[p].pc = "updateListingAvailability" /\ ret' = NoRet
                      ELSE /\ ret'.op = "updateOrderStatus" /\ ret'.result = "ok"
                           /\ ret'.newStatus = req[p].newStatus
          /\ (req[p].pc = "updateListingAvailability" /\ UpdateOrderStatus_Flip(p))
                => /\ ~listings'[req[p].listingId].isAvailable
                   /\ ret'.op = "updateOrderStatus" /\ ret'.result = "ok"
                   /\ ret'.newStatus = COMPLETED]_vars

\* the end of the happy path: the one order, created at price 100 and sold by the
\* listing's owner, is COMPLETED and its listing is unavailable
C26_Witness ==
    /\ ret.op = "updateOrderStatus" /\ ret.result = "ok" /\ ret.newStatus = COMPLETED
    /\ Len(orders) = 1
    /\ orders[1].status = COMPLETED
    /\ orders[1].totalPrice = BasePrice
    /\ orders[1].sellerId = listings[orders[1].listingId].ownerId
    /\ listings[orders[1].listingId].listingType = "SELL"
    /\ ~listings[orders[1].listingId].isAvailable

\* C27: updateOrderStatus and cancelOrder check in this order: the order exists
\* (NotFound), the actor has a student (NotAParticipant), the status allows the change
\* (InvalidTransition, CancellationNotAllowed), the actor's role (NotAuthorized).  So
\* a missing order is NotFound also for a user without a student; a user without a
\* student is NotAParticipant also when the change is illegal; a non-seller asking
\* APPROVED or REJECTED gets InvalidTransition where that change is illegal and
\* NotAuthorized only where it is legal; a student who is no party gets
\* CancellationNotAllowed on an order that cannot be cancelled and NotAuthorized only
\* on one that can; NotAuthorized is thrown only with an order on which the change
\* asked for is legal.
C27_ChecksInOrder ==
    /\ \A o \in OrderIds, u \in Users :
          /\ o \notin 1..Len(orders)
                => /\ cancelOrderCheck(o, u) = "NotFound"
                   /\ \A s \in {APPROVED, REJECTED} : updateOrderStatusCheck(o, s, u) = "NotFound"
          /\ (o \in 1..Len(orders) /\ findStudentByUserId(u) = {})
                => /\ cancelOrderCheck(o, u) = "NotAParticipant"
                   /\ \A s \in {APPROVED, REJECTED} : updateOrderStatusCheck(o, s, u) = "NotAParticipant"
          /\ (/\ o \in 1..Len(orders)
              /\ findStudentByUserId(u) # {}
              /\ StudentOf(u).id # orders[o].sellerId)
                => \A s \in {APPROVED, REJECTED} :
                      updateOrderStatusCheck(o, s, u) =
                         (IF isValidTransition(orders[o].status, s)
                          THEN "NotAuthorized" ELSE "InvalidTransition")
          /\ (/\ o \in 1..Len(orders)
              /\ findStudentByUserId(u) # {}
              /\ ~IsParty(o, u))
                => cancelOrderCheck(o, u) =
                      (IF orders[o].status \in {PAID, COMPLETED, REJECTED, CANCELLED}
                       THEN "CancellationNotAllowed" ELSE "NotAuthorized")
    /\ (ret.op = "updateOrderStatus" /\ ret.result = "NotAuthorized")
          => \E o \in 1..Len(orders), s \in {APPROVED, REJECTED} :
                isValidTransition(orders[o].status, s)
    /\ (ret.op = "cancelOrder" /\ ret.result = "NotAuthorized")
          => \E o \in 1..Len(orders) : orders[o].status \notin nonCancellableStatuses

\* a status update has been refused as InvalidTransition on a PENDING order, from which
\* neither APPROVED nor REJECTED is legal, whoever asks
C27_Witness ==
    /\ ret.op = "updateOrderStatus" /\ ret.result = "InvalidTransition"
    /\ Len(orders) = 1
    /\ orders[1].status = PENDING

\* C28: only a party to an order can change it: a call of updateOrderStatus by a
\* user whose student is neither the buyer nor the seller of the order never passes
\* the checks, so it leaves no request that goes on to write the order's status or
\* its listing's availability.
C28_OnlyPartiesChangeOrders ==
    [][\A o \in 1..Len(orders), u \in Users :
          (findStudentByUserId(u) # {} /\ ~IsParty(o, u))
             => \A p \in Procs, s \in OrderStatus :
                   UpdateOrderStatus_Begin(p, o, s, u) => req' = req]_vars

\* C29: a listing is sold at most once: in every reachable state at most one order
\* per listing has status COMPLETED, also when several buyers hold active orders on
\* the listing while one of them completes.
C29_SoldAtMostOnce ==
    \A l \in ListingIds :
       Cardinality({o \in 1..Len(orders) :
                       orders[o].listingId = l /\ orders[o].status = COMPLETED}) <= 1

\* C30: once an order on a listing is COMPLETED, the call that completed it has
\* returned and the listing is unavailable, no later step of the system makes the
\* listing available again, the owner's listing update with isAvailable = true
\* included.
C30_SoldListingStaysUnavailable ==
    [][\A l \in ListingIds :
          (/\ ~listings[l].isAvailable
           /\ \A p \in Procs : req[p].op # "updateOrderStatus"
           /\ \E o \in 1..Len(orders) :
                 orders[o].listingId = l /\ orders[o].status = COMPLETED)
             => ~listings'[l].isAvailable]_vars

====
